---- MODULE Spec2Model ----
(***************************************************************************)
(* Order-item CRUD router (app/core/routers/order_items.py) over a         *)
(* transactional store.  Each request handler is one action: it reads the  *)
(* committed store, stages its change, commits, refreshes and answers.     *)
(* The storage layer may raise SQLAlchemyError at the commit or at the     *)
(* refresh of a request; that choice is the input `fault`.  A second set   *)
(* of actions takes the writing handlers in two steps, up to the commit    *)
(* and from the commit on, so that requests of two sessions interleave.    *)
(***************************************************************************)
EXTENDS Integers, FiniteSets, Sequences, TLC

VARIABLES
    products,      \* Product table: id -> [price]
    order_items,   \* OrderItem table (committed rows): id -> row
    next_item_id,  \* next surrogate key the storage hands out
    response,      \* what the latest request answered
    session_log,   \* the calls the latest request made on its session
    in_flight      \* per session: the request suspended before its commit

vars == <<products, order_items, next_item_id, response, session_log,
          in_flight>>

-----------------------------------------------------------------------------
(* Bounds *)

\* keys the storage hands out before the model stops creating; it hands out
\* one more when every item has been deleted by then
MaxItems == 1

(* Sample values of the requests' inputs *)

\* order ids a request may name: one of an order that exists and a missing one
OrderIds == {1, 3}
\* quantities a request may carry: one that is not positive and two that are
Quantities == {0, 1, 2}
\* product ids a request may name: the two of the catalogue and a missing one
ProductIds == {1, 2, 3}
\* item ids a request may name: every key the storage can hand out and one
\* it never does
ItemIds == 1..(MaxItems + 2)

\* the Product table the fixtures leave: two products of different price
Catalogue == (1 :> [price |-> 10]) @@ (2 :> [price |-> 20])

\* the ids of the Order table, which this router never writes
Orders == {1, 2}

-----------------------------------------------------------------------------
(* Schemas *)

\* fields of OrderItemCreateSchema / OrderItemPartialUpdateSchema
SchemaFields == {"order_id", "product_id", "quantity"}

\* Python None in an integer field left at its default
None == 0 - 1

\* OrderItemCreateSchema instances: all three fields required
CreateItems ==
    [order_id : OrderIds, product_id : ProductIds, quantity : Quantities]

\* OrderItemPartialUpdateSchema instances: every field optional, the
\* fields the payload carried are remembered in model_fields_set
PartialItems ==
    UNION { { [order_id |-> IF "order_id" \in fs THEN o ELSE None,
               product_id |-> IF "product_id" \in fs THEN p ELSE None,
               quantity |-> IF "quantity" \in fs THEN q ELSE None,
               model_fields_set |-> fs]
              : o \in OrderIds, p \in ProductIds, q \in Quantities }
            : fs \in SUBSET SchemaFields }

\* OrderItemCreateSchema instances the storage accepts: an order and a
\* product that exist and a positive quantity
ReplaceItems ==
    [order_id : Orders, product_id : DOMAIN Catalogue, quantity : {1, 2}]

\* item.model_dump()
model_dump(item) == [f \in SchemaFields |-> item[f]]

\* a dump that stops after the first field the payload carried
model_dump_first_only(item) ==
    [f \in { g \in item.model_fields_set :
                g = CHOOSE h \in item.model_fields_set : TRUE } |-> item[f]]

\* item.model_dump(exclude_unset=True)
model_dump_exclude_unset(item) == [f \in item.model_fields_set |-> item[f]]

-----------------------------------------------------------------------------
(* Responses *)

HTTP_200_OK == 200
HTTP_201_CREATED == 201
HTTP_204_NO_CONTENT == 204
HTTP_400_BAD_REQUEST == 400
HTTP_404_NOT_FOUND == 404

NoDetail == <<>>
NoBody == {}

\* op and item_id: the route and its path parameter; status_code, detail:
\* the HTTPException raised (or the route's success status); body: the
\* records returned
Response(op, item_id, status_code, detail, body) ==
    [op |-> op, item_id |-> item_id, status_code |-> status_code,
     detail |-> detail, body |-> body]

\* f"Order item with id={item_id} not found."
OrderItemNotFound(item_id) ==
    <<"Order item with id=", ToString(item_id), " not found.">>

\* f"Product with id={item.product_id} not found."
ProductNotFound(product_id) ==
    <<"Product with id=", ToString(product_id), " not found.">>

\* "Item not found"
ItemNotFound(item_id) == <<"Item not found">>

\* f"Error creating order item: {e}"
ErrorCreating(e) == <<"Error creating order item: ", e>>

\* f"Error updating order item: {e}"
ErrorUpdating(e) == <<"Error updating order item: ", e>>

\* str(e)
StrError(e) == <<e>>

-----------------------------------------------------------------------------
(* Session and storage *)

\* where the storage raises SQLAlchemyError during a request, if at all,
\* for a reason that is not in the data (a lost connection, say)
Faults == {"none", "commit", "refresh"}

\* the text of that error
OperationalError == "OperationalError"

\* a table whose order_id is no foreign key
IntegrityErrorsWithoutOrder(row) ==
    (IF row.product_id \in DOMAIN products THEN {}
     ELSE {"IntegrityError: product_id"})
    \cup (IF row.quantity > 0 THEN {}
          ELSE {"IntegrityError: quantity"})

\* a table that does not check the quantity
IntegrityErrorsWithoutCheck(row) ==
    (IF row.order_id \in Orders THEN {}
     ELSE {"IntegrityError: order_id"})
    \cup (IF row.product_id \in DOMAIN products THEN {}
          ELSE {"IntegrityError: product_id"})

\* a table whose product_id is no foreign key
IntegrityErrorsWithoutProduct(row) ==
    (IF row.order_id \in Orders THEN {}
     ELSE {"IntegrityError: order_id"})
    \cup (IF row.quantity > 0 THEN {}
          ELSE {"IntegrityError: quantity"})

\* the errors the flush of `await session.commit()` can raise for the row it
\* writes: one for each constraint of the order_items table the row breaks
\* (its two foreign keys and the positive quantity)
IntegrityErrors(row) ==
    (IF row.order_id \in Orders THEN {}
     ELSE {"IntegrityError: order_id"})
    \cup (IF row.product_id \in DOMAIN products THEN {}
          ELSE {"IntegrityError: product_id"})
    \cup (IF row.quantity > 0 THEN {}
          ELSE {"IntegrityError: quantity"})

\* where the try block raises: at the commit when the flush breaks a
\* constraint, and else where the fault of the request is
RaisedAt(row, fault) ==
    IF IntegrityErrors(row) # {} THEN "commit" ELSE fault

\* the SQLAlchemyError `e` the except block catches
Caught(row, fault) ==
    IF IntegrityErrors(row) # {} THEN IntegrityErrors(row)
    ELSE {OperationalError}

\* one call on the session: what was called, the key it looked up (0 when
\* the call takes none) and whether it raised
Call(call, key, raised) == [call |-> call, key |-> key, raised |-> raised]

\* an except block that forgets to roll back
TryCommitRefreshNoRollback(fault) ==
    IF fault = "commit"
    THEN <<Call("commit", 0, TRUE)>>
    ELSE IF fault = "refresh"
    THEN <<Call("commit", 0, FALSE), Call("refresh", 0, TRUE)>>
    ELSE <<Call("commit", 0, FALSE), Call("refresh", 0, FALSE)>>

\* the calls a handler makes from its try block on, given the fault
TryCommitRefresh(fault) ==
    IF fault = "commit"
    THEN <<Call("commit", 0, TRUE), Call("rollback", 0, FALSE)>>
    ELSE IF fault = "refresh"
    THEN <<Call("commit", 0, FALSE), Call("refresh", 0, TRUE),
           Call("rollback", 0, FALSE)>>
    ELSE <<Call("commit", 0, FALSE), Call("refresh", 0, FALSE)>>

\* a price computed as a line total
line_total(item, product) == product.price * item.quantity

\* unit_price=product.price
unit_price(item, product) == product.price

\* OrderItem(**item.model_dump(), unit_price=product.price)
OrderItem(item, product) ==
    model_dump(item) @@ [unit_price |-> unit_price(item, product)]

\* a storage that hands the same key out again
same_key_again(id) == id

\* the key the storage hands out after `id`: keys grow and are never reused
autoincrement(id) == id + 1

\* the INSERT of the flush: the storage assigns the key
Insert(table, id, row) == table @@ (id :> ([id |-> id] @@ row))

\* an update that re-derives the price when the product changes
setattr_and_reprice(existing_item, update_data) ==
    [f \in DOMAIN existing_item |->
        IF f \in DOMAIN update_data THEN update_data[f]
        ELSE IF /\ f = "unit_price"
                /\ "product_id" \in DOMAIN update_data
                /\ update_data["product_id"] \in DOMAIN products
             THEN products[update_data["product_id"]].price
             ELSE existing_item[f]]

\* a loop that skips the order of the item
setattr_all_but_order(existing_item, update_data) ==
    [f \in DOMAIN existing_item |->
        IF f \in DOMAIN update_data \ {"order_id"}
        THEN update_data[f] ELSE existing_item[f]]

\* for field, value in update_data.items(): setattr(existing_item, field, value)
setattr_all(existing_item, update_data) ==
    [f \in DOMAIN existing_item |->
        IF f \in DOMAIN update_data THEN update_data[f] ELSE existing_item[f]]

\* update_data = item.model_dump(exclude_unset=True), then the setattr loop
patched(existing_item, item) ==
    setattr_all(existing_item, model_dump_exclude_unset(item))

\* the UPDATE of the flush
Update(table, id, row) == [table EXCEPT ![id] = row]

\* a delete that never reaches the table
DeleteNothing(table, id) == table

\* the DELETE of the flush
Delete(table, id) == [i \in DOMAIN table \ {id} |-> table[i]]

\* session.commit(): what was flushed becomes the committed table
Commit(committed, flushed) == flushed

\* a rollback that leaves the flushed rows in place
RollbackKeepsFlushed(committed, flushed) == flushed

\* session.rollback(): what was flushed is discarded
Rollback(committed, flushed) == committed

\* a query that lost its filter: the first row of the table, whatever its key
first_of_all(table, id) ==
    IF DOMAIN table = {} THEN {}
    ELSE {table[CHOOSE i \in DOMAIN table : \A j \in DOMAIN table : i <= j]}

\* select(...).filter(OrderItem.id == item_id) ... result.scalars().first():
\* the record with that key, as a set of at most one row
select_first(table, id) == { table[i] : i \in DOMAIN table \cap {id} }

\* session.get(Entity, key): the record with that key, or none
session_get(table, id) == { table[i] : i \in DOMAIN table \cap {id} }

\* the record a lookup found (`if not existing_item` was false)
The(found) == CHOOSE row \in found : TRUE

\* result.scalars().all()
AllRows(table) == { table[i] : i \in DOMAIN table }

-----------------------------------------------------------------------------
(* Requests in flight.  A handler suspends at each await; between its      *)
(* lookup and its commit other requests may run, each on its own session.  *)

Sessions == {"A", "B"}

\* a session that serves no request
Idle == [op |-> "idle", item_id |-> 0, loaded |-> {}, pending |-> {}]

\* a request suspended before `await session.commit()`: the record its lookup
\* loaded (none for a create) and the object its session holds to write
InFlight(op, item_id, loaded, pending) ==
    [op |-> op, item_id |-> item_id, loaded |-> loaded, pending |-> pending]

-----------------------------------------------------------------------------
(* State after the fixtures: tables cleared (clear_db), then the products   *)
(* of the test created (product_factory)                                  *)

Init ==
    /\ products = Catalogue
    /\ order_items = << >>
    /\ next_item_id = 1
    /\ response = Response("none", 0, 0, NoDetail, NoBody)
    /\ session_log = << >>
    /\ in_flight = [s \in Sessions |-> Idle]

-----------------------------------------------------------------------------
(* Handlers *)

get_order_items ==
    /\ response' = Response("list", 0, HTTP_200_OK, NoDetail,
                            AllRows(order_items))
    /\ session_log' = <<Call("select OrderItem", 0, FALSE)>>
    /\ UNCHANGED <<products, order_items, next_item_id, in_flight>>

get_order_item(item_id) ==
    /\ session_log' = <<Call("select OrderItem", item_id, FALSE)>>
    /\ response' =
         LET existing_item == select_first(order_items, item_id) IN
         IF existing_item = {}
         THEN Response("get", item_id, HTTP_404_NOT_FOUND,
                       OrderItemNotFound(item_id), NoBody)
         ELSE Response("get", item_id, HTTP_200_OK, NoDetail, existing_item)
    /\ UNCHANGED <<products, order_items, next_item_id, in_flight>>

\* a create that writes the row first and looks the product up afterwards
create_order_item_write_first(item) ==
    /\ next_item_id <= MaxItems
    /\ order_items' = Insert(order_items, next_item_id,
                             model_dump(item) @@ [unit_price |-> None])
    /\ next_item_id' = autoincrement(next_item_id)
    /\ session_log' = <<Call("add", 0, FALSE), Call("commit", 0, FALSE),
                        Call("get Product", item.product_id, FALSE)>>
    /\ response' =
         IF session_get(products, item.product_id) = {}
         THEN Response("create", 0, HTTP_404_NOT_FOUND,
                       ProductNotFound(item.product_id), NoBody)
         ELSE Response("create", next_item_id, HTTP_201_CREATED, NoDetail,
                       {order_items'[next_item_id]})
    /\ UNCHANGED <<products, in_flight>>

create_order_item(item) ==
    /\ LET product == session_get(products, item.product_id) IN
       IF product = {}
       THEN /\ response' = Response("create", 0, HTTP_404_NOT_FOUND,
                                    ProductNotFound(item.product_id), NoBody)
            /\ session_log' = <<Call("get Product", item.product_id, FALSE)>>
            /\ UNCHANGED <<order_items, next_item_id>>
       ELSE LET new_item == OrderItem(item, The(product))
                flushed == Insert(order_items, next_item_id, new_item)
            IN
            \E fault \in Faults : \E e \in Caught(new_item, fault) :
              LET at == RaisedAt(new_item, fault) IN
              \* the model stops inserting once MaxItems keys are handed out
              /\ \/ at = "commit"
                 \/ next_item_id <= MaxItems
                 \/ next_item_id = MaxItems + 1 /\ DOMAIN order_items = {}
              /\ session_log' =
                   <<Call("get Product", item.product_id, FALSE),
                     Call("add", 0, FALSE)>> \o TryCommitRefresh(at)
              /\ IF at = "commit"
                 THEN /\ order_items' = Rollback(order_items, flushed)
                      /\ next_item_id' = next_item_id
                      /\ response' = Response("create", 0, HTTP_400_BAD_REQUEST,
                                              ErrorCreating(e), NoBody)
                 ELSE /\ order_items' = Commit(order_items, flushed)
                      /\ next_item_id' = autoincrement(next_item_id)
                      /\ response' =
                           IF at = "refresh"
                           THEN Response("create", 0, HTTP_400_BAD_REQUEST,
                                         ErrorCreating(e), NoBody)
                           ELSE Response("create", next_item_id,
                                         HTTP_201_CREATED, NoDetail,
                                         {order_items'[next_item_id]})
    /\ UNCHANGED <<products, in_flight>>

update_order_item(item_id, item) ==
    /\ LET found == select_first(order_items, item_id) IN
       IF found = {}
       THEN /\ response' = Response("update", item_id, HTTP_404_NOT_FOUND,
                                    ItemNotFound(item_id), NoBody)
            /\ session_log' = <<Call("select OrderItem", item_id, FALSE)>>
            /\ UNCHANGED order_items
       ELSE LET existing_item == setattr_all(The(found), model_dump(item))
                flushed == Update(order_items, existing_item.id, existing_item)
            IN
            \E fault \in Faults : \E e \in Caught(existing_item, fault) :
              LET at == RaisedAt(existing_item, fault) IN
              /\ session_log' = <<Call("select OrderItem", item_id, FALSE)>>
                                  \o TryCommitRefresh(at)
              /\ IF at = "commit"
                 THEN /\ order_items' = Rollback(order_items, flushed)
                      /\ response' = Response("update", item_id,
                                              HTTP_400_BAD_REQUEST, StrError(e),
                                              NoBody)
                 ELSE /\ order_items' = Commit(order_items, flushed)
                      /\ response' =
                           IF at = "refresh"
                           THEN Response("update", item_id,
                                         HTTP_400_BAD_REQUEST, StrError(e),
                                         NoBody)
                           ELSE Response("update", item_id, HTTP_200_OK,
                                         NoDetail,
                                         {order_items'[existing_item.id]})
    /\ UNCHANGED <<products, next_item_id, in_flight>>

partial_update_order_item(item_id, item) ==
    /\ LET found == select_first(order_items, item_id) IN
       IF found = {}
       THEN /\ response' = Response("partial_update", item_id,
                                    HTTP_404_NOT_FOUND,
                                    OrderItemNotFound(item_id), NoBody)
            /\ session_log' = <<Call("select OrderItem", item_id, FALSE)>>
            /\ UNCHANGED order_items
       ELSE LET existing_item == patched(The(found), item)
                flushed == Update(order_items, existing_item.id, existing_item)
            IN
            \E fault \in Faults : \E e \in Caught(existing_item, fault) :
              LET at == RaisedAt(existing_item, fault) IN
              /\ session_log' = <<Call("select OrderItem", item_id, FALSE)>>
                                  \o TryCommitRefresh(at)
              /\ IF at = "commit"
                 THEN /\ order_items' = Rollback(order_items, flushed)
                      /\ response' = Response("partial_update", item_id,
                                              HTTP_400_BAD_REQUEST,
                                              ErrorUpdating(e), NoBody)
                 ELSE /\ order_items' = Commit(order_items, flushed)
                      /\ response' =
                           IF at = "refresh"
                           THEN Response("partial_update", item_id,
                                         HTTP_400_BAD_REQUEST, ErrorUpdating(e),
                                         NoBody)
                           ELSE Response("partial_update", item_id,
                                         HTTP_200_OK, NoDetail,
                                         {order_items'[existing_item.id]})
    /\ UNCHANGED <<products, next_item_id, in_flight>>

delete_order_item(item_id) ==
    /\ LET existing_item == session_get(order_items, item_id) IN
       IF existing_item = {}
       THEN /\ response' = Response("delete", item_id, HTTP_404_NOT_FOUND,
                                    OrderItemNotFound(item_id), NoBody)
            /\ session_log' = <<Call("get OrderItem", item_id, FALSE)>>
            /\ UNCHANGED order_items
       ELSE LET flushed == Delete(order_items, The(existing_item).id) IN
            \E fault \in Faults \ {"refresh"} :
              IF fault = "commit"
              THEN /\ session_log' =
                        <<Call("get OrderItem", item_id, FALSE),
                          Call("delete", 0, FALSE), Call("commit", 0, TRUE),
                          Call("rollback", 0, FALSE)>>
                   /\ order_items' = Rollback(order_items, flushed)
                   /\ response' = Response("delete", item_id,
                                           HTTP_400_BAD_REQUEST,
                                           StrError(OperationalError), NoBody)
              ELSE /\ session_log' =
                        <<Call("get OrderItem", item_id, FALSE),
                          Call("delete", 0, FALSE), Call("commit", 0, FALSE)>>
                   /\ order_items' = Commit(order_items, flushed)
                   /\ response' = Response("delete", item_id,
                                           HTTP_204_NO_CONTENT, NoDetail,
                                           NoBody)
    /\ UNCHANGED <<products, next_item_id, in_flight>>

-----------------------------------------------------------------------------

Next ==
    \/ get_order_items
    \/ \E item_id \in ItemIds : get_order_item(item_id)
    \/ \E item \in CreateItems : create_order_item(item)
    \/ \E item_id \in ItemIds, item \in CreateItems :
           update_order_item(item_id, item)
    \/ \E item_id \in ItemIds, item \in PartialItems :
           partial_update_order_item(item_id, item)
    \/ \E item_id \in ItemIds : delete_order_item(item_id)

Spec == Init /\ [][Next]_vars

\* the router under clients that create, replace, read and delete items
\* with payloads the storage accepts
NextReplace ==
    \/ get_order_items
    \/ \E item_id \in ItemIds : get_order_item(item_id)
    \/ \E item \in ReplaceItems : create_order_item(item)
    \/ \E item_id \in ItemIds, item \in ReplaceItems :
           update_order_item(item_id, item)
    \/ \E item_id \in ItemIds : delete_order_item(item_id)

SpecReplace == Init /\ [][NextReplace]_vars

-----------------------------------------------------------------------------
(* The handlers step by step: up to the commit, and from the commit on.     *)
(* Each request has a session of its own; what it has set on its objects   *)
(* stays in the session until the flush of its commit.                     *)

\* payloads of the concurrent Updates: the item as it is created, the item
\* with the other product, and the item with the other quantity
ConcurrentItems ==
    { [order_id |-> 1, product_id |-> 1, quantity |-> 1],
      [order_id |-> 1, product_id |-> 2, quantity |-> 1],
      [order_id |-> 1, product_id |-> 1, quantity |-> 2] }

\* payloads of the concurrent Creates
ConcurrentNewItems ==
    { item \in ConcurrentItems : item.product_id = 1 /\ item.quantity = 1 }

\* payloads of the concurrent PartialUpdates: the larger quantity alone
ConcurrentPartialItems ==
    { item \in PartialItems :
        item.model_fields_set = {"quantity"} /\ item.quantity = 2 }

\* item ids the concurrent requests name: every key the storage hands out
ConcurrentIds == 1..MaxItems

\* the text of the error of an UPDATE that matches no row
StaleDataError == "StaleDataError"

\* the text of the error of a refresh that finds no row
InvalidRequestError == "InvalidRequestError"

\* asyncio.CancelledError, which no except block of the handlers catches
CancelledError == <<"CancelledError">>

\* the SET clause of the UPDATE the flush emits for an object: the
\* attributes whose value is not the one that was loaded
Dirty(loaded, existing_item) ==
    [f \in { g \in DOMAIN existing_item : existing_item[g] # loaded[g] }
       |-> existing_item[f]]

\* a release that keeps what the request had staged
ReleaseKeepsPending(request) == request

\* the session provider releases the session of a request that ends without
\* a commit: its transaction is rolled back and its objects are dropped
Release(request) == Idle

\* create_order_item up to `await session.commit()`
create_order_item_add(s, item) ==
    /\ in_flight[s] = Idle
    /\ LET product == session_get(products, item.product_id) IN
       IF product = {}
       THEN /\ response' = Response("create", 0, HTTP_404_NOT_FOUND,
                                    ProductNotFound(item.product_id), NoBody)
            /\ session_log' = <<Call("get Product", item.product_id, FALSE)>>
            /\ UNCHANGED in_flight
       ELSE /\ in_flight' =
                 [in_flight EXCEPT ![s] =
                    InFlight("create", 0, {}, {OrderItem(item, The(product))})]
            /\ session_log' = <<Call("get Product", item.product_id, FALSE),
                                Call("add", 0, FALSE)>>
            /\ UNCHANGED response
    /\ UNCHANGED <<products, order_items, next_item_id>>

\* create_order_item from `await session.commit()` on
create_order_item_commit(s) ==
    /\ in_flight[s].op = "create"
    /\ LET new_item == The(in_flight[s].pending)
           flushed == Insert(order_items, next_item_id, new_item)
       IN
       \E fault \in Faults : \E e \in Caught(new_item, fault) :
         LET at == RaisedAt(new_item, fault) IN
         /\ at = "commit" \/ next_item_id <= MaxItems
         /\ session_log' = TryCommitRefresh(at)
         /\ IF at = "commit"
            THEN /\ order_items' = Rollback(order_items, flushed)
                 /\ next_item_id' = next_item_id
                 /\ response' = Response("create", 0, HTTP_400_BAD_REQUEST,
                                         ErrorCreating(e), NoBody)
            ELSE /\ order_items' = Commit(order_items, flushed)
                 /\ next_item_id' = autoincrement(next_item_id)
                 /\ response' =
                      IF at = "refresh"
                      THEN Response("create", 0, HTTP_400_BAD_REQUEST,
                                    ErrorCreating(e), NoBody)
                      ELSE Response("create", next_item_id, HTTP_201_CREATED,
                                    NoDetail, {order_items'[next_item_id]})
    /\ in_flight' = [in_flight EXCEPT ![s] = Idle]
    /\ UNCHANGED products

\* the lookup of update_order_item and of partial_update_order_item, and the
\* setattr loop on the record it found
Fetch(s, op, item_id, update_data, not_found) ==
    /\ in_flight[s] = Idle
    /\ LET found == select_first(order_items, item_id) IN
       IF found = {}
       THEN /\ response' = Response(op, item_id, HTTP_404_NOT_FOUND,
                                    not_found, NoBody)
            /\ UNCHANGED in_flight
       ELSE /\ in_flight' =
                 [in_flight EXCEPT ![s] =
                    InFlight(op, item_id, found,
                             {setattr_all(The(found), update_data)})]
            /\ UNCHANGED response
    /\ session_log' = <<Call("select OrderItem", item_id, FALSE)>>
    /\ UNCHANGED <<products, order_items, next_item_id>>

\* the try block of update_order_item and of partial_update_order_item, on
\* the table as the other requests have left it; each words its error its
\* own way
CommitRefresh(s, op) ==
    /\ in_flight[s].op = op
    /\ LET item_id == in_flight[s].item_id
           Error(e) == IF op = "update" THEN StrError(e) ELSE ErrorUpdating(e)
           set == Dirty(The(in_flight[s].loaded), The(in_flight[s].pending))
           row == select_first(order_items, item_id)
       IN
       IF row = {}
       THEN \* the record was deleted meanwhile: the UPDATE matches no row,
            \* or, with nothing to update, the refresh finds none
            LET at == IF DOMAIN set = {} THEN "refresh" ELSE "commit"
                e == IF DOMAIN set = {} THEN InvalidRequestError
                     ELSE StaleDataError
            IN
            /\ session_log' = TryCommitRefresh(at)
            /\ order_items' = Rollback(order_items, order_items)
            /\ response' = Response(op, item_id, HTTP_400_BAD_REQUEST,
                                    Error(e), NoBody)
       ELSE LET existing_item == setattr_all(The(row), set)
                flushed == Update(order_items, item_id, existing_item)
            IN
            \E fault \in Faults : \E e \in Caught(existing_item, fault) :
              LET at == RaisedAt(existing_item, fault) IN
              /\ session_log' = TryCommitRefresh(at)
              /\ IF at = "commit"
                 THEN /\ order_items' = Rollback(order_items, flushed)
                      /\ response' = Response(op, item_id,
                                              HTTP_400_BAD_REQUEST, Error(e),
                                              NoBody)
                 ELSE /\ order_items' = Commit(order_items, flushed)
                      /\ response' =
                           IF at = "refresh"
                           THEN Response(op, item_id, HTTP_400_BAD_REQUEST,
                                         Error(e), NoBody)
                           ELSE Response(op, item_id, HTTP_200_OK, NoDetail,
                                         {order_items'[item_id]})
    /\ in_flight' = [in_flight EXCEPT ![s] = Idle]
    /\ UNCHANGED <<products, next_item_id>>

\* update_order_item up to `await session.commit()`
update_order_item_fetch(s, item_id, item) ==
    Fetch(s, "update", item_id, model_dump(item), ItemNotFound(item_id))

\* update_order_item from `await session.commit()` on
update_order_item_commit(s) == CommitRefresh(s, "update")

\* partial_update_order_item up to `await session.commit()`
partial_update_order_item_fetch(s, item_id, item) ==
    Fetch(s, "partial_update", item_id, model_dump_exclude_unset(item),
          OrderItemNotFound(item_id))

\* partial_update_order_item from `await session.commit()` on
partial_update_order_item_commit(s) ==
    CommitRefresh(s, "partial_update")

\* delete_order_item up to its try block
delete_order_item_get(s, item_id) ==
    /\ in_flight[s] = Idle
    /\ LET existing_item == session_get(order_items, item_id) IN
       IF existing_item = {}
       THEN /\ response' = Response("delete", item_id, HTTP_404_NOT_FOUND,
                                    OrderItemNotFound(item_id), NoBody)
            /\ UNCHANGED in_flight
       ELSE /\ in_flight' =
                 [in_flight EXCEPT ![s] =
                    InFlight("delete", item_id, existing_item, existing_item)]
            /\ UNCHANGED response
    /\ session_log' = <<Call("get OrderItem", item_id, FALSE)>>
    /\ UNCHANGED <<products, order_items, next_item_id>>

\* the try block of delete_order_item; a DELETE that matches no row is no
\* error
delete_order_item_commit(s) ==
    /\ in_flight[s].op = "delete"
    /\ LET item_id == in_flight[s].item_id
           flushed == Delete(order_items, item_id)
       IN
       \E fault \in Faults \ {"refresh"} :
         IF fault = "commit"
         THEN /\ session_log' = <<Call("delete", 0, FALSE),
                                  Call("commit", 0, TRUE),
                                  Call("rollback", 0, FALSE)>>
              /\ order_items' = Rollback(order_items, flushed)
              /\ response' = Response("delete", item_id, HTTP_400_BAD_REQUEST,
                                      StrError(OperationalError), NoBody)
         ELSE /\ session_log' = <<Call("delete", 0, FALSE),
                                  Call("commit", 0, FALSE)>>
              /\ order_items' = Commit(order_items, flushed)
              /\ response' = Response("delete", item_id, HTTP_204_NO_CONTENT,
                                      NoDetail, NoBody)
    /\ in_flight' = [in_flight EXCEPT ![s] = Idle]
    /\ UNCHANGED <<products, next_item_id>>

\* the request of a session is cancelled, or times out, while it awaits its
\* commit: CancelledError leaves the handler and the session is released
cancel(s) ==
    /\ in_flight[s] # Idle
    /\ in_flight' = [in_flight EXCEPT ![s] = Release(in_flight[s])]
    /\ session_log' = <<Call("rollback", 0, FALSE)>>
    /\ response' = Response(in_flight[s].op, in_flight[s].item_id, 0,
                            CancelledError, NoBody)
    /\ UNCHANGED <<products, order_items, next_item_id>>

NextConcurrent ==
    \E s \in Sessions :
      \/ \E item \in ConcurrentNewItems : create_order_item_add(s, item)
      \/ create_order_item_commit(s)
      \/ \E item_id \in ConcurrentIds, item \in ConcurrentItems :
             update_order_item_fetch(s, item_id, item)
      \/ update_order_item_commit(s)
      \/ \E item_id \in ConcurrentIds, item \in ConcurrentPartialItems :
             partial_update_order_item_fetch(s, item_id, item)
      \/ partial_update_order_item_commit(s)
      \/ \E item_id \in ConcurrentIds : delete_order_item_get(s, item_id)
      \/ delete_order_item_commit(s)
      \/ cancel(s)

SpecConcurrent == Init /\ [][NextConcurrent]_vars

-----------------------------------------------------------------------------
(* Helpers of the properties *)

Succeeded(op, status_code) ==
    response.op = op /\ response.status_code = status_code

\* some call of that name in the log, raising or not as said
Called(log, call, raised) ==
    \E i \in DOMAIN log : log[i].call = call /\ log[i].raised = raised

\* the key the request looked its record up by (the first call of a handler
\* that looks a record up is that lookup)
LookedUp(log) == log[1].key

-----------------------------------------------------------------------------
(* Properties *)

\* C1: a successful Create returns one OrderItem, which is the row now
\* stored under its id, and whose unit_price is the price of the product the
\* request named, whatever quantity the request carried.
C1_PriceCapture ==
    Succeeded("create", HTTP_201_CREATED) =>
        /\ Cardinality(response.body) = 1
        /\ \A new_item \in response.body :
             /\ new_item.id \in DOMAIN order_items
             /\ order_items[new_item.id] = new_item
             /\ new_item.product_id = LookedUp(session_log)
             /\ new_item.product_id \in DOMAIN products
             /\ new_item.unit_price = products[new_item.product_id].price

\* a Create with a quantity above one has succeeded for the dearer price
C1_Witness ==
    /\ Succeeded("create", HTTP_201_CREATED)
    /\ \E new_item \in response.body :
         new_item.quantity > 1 /\ new_item.unit_price = 20

\* C2: a Create naming a product that does not exist answers 404, makes no
\* add and no commit on its session, and leaves the stored OrderItems (what
\* List returns) as they were.
C2_MissingProduct ==
    [][ response'.op = "create" =>
          \A item \in CreateItems :
            (create_order_item(item) /\ item.product_id \notin DOMAIN products)
            => /\ response'.status_code = HTTP_404_NOT_FOUND
               /\ ~Called(session_log', "add", FALSE)
               /\ ~Called(session_log', "commit", FALSE)
               /\ order_items' = order_items
               /\ AllRows(order_items') = AllRows(order_items) ]_vars

\* a Create was refused for its product while an OrderItem is stored
C2_Witness ==
    /\ Succeeded("create", HTTP_404_NOT_FOUND)
    /\ LookedUp(session_log) \notin DOMAIN products
    /\ DOMAIN order_items # {}

\* C3: no Update and no PartialUpdate changes the unit_price of any stored
\* OrderItem, and the item they return carries the unit_price it had before,
\* also when the request moves the item to a product with another price.
C3_PriceFreeze ==
    [][ response'.op \in {"update", "partial_update"} =>
          /\ \A id \in DOMAIN order_items :
               /\ id \in DOMAIN order_items'
               /\ order_items'[id].unit_price = order_items[id].unit_price
          /\ \A existing_item \in response'.body :
               /\ existing_item.id \in DOMAIN order_items
               /\ existing_item.unit_price =
                      order_items[existing_item.id].unit_price ]_vars

\* an Update has succeeded and its item now names a product whose price is
\* not the item's unit_price
C3_Witness ==
    /\ Succeeded("update", HTTP_200_OK)
    /\ \E existing_item \in response.body :
         /\ existing_item.product_id \in DOMAIN products
         /\ products[existing_item.product_id].price # existing_item.unit_price

\* C4: a successful PartialUpdate of a stored item stores what some payload
\* makes of the item; for every payload that the stored result comes from,
\* every field the payload carries has the payload's value and every other
\* field of the item (id and unit_price included) is as it was; no other
\* item changes, and the answer is the stored item.
C4_PartialSemantics ==
    [][ (response'.op = "partial_update"
         /\ response'.status_code = HTTP_200_OK) =>
          LET id == response'.item_id IN
          /\ id \in DOMAIN order_items
          /\ DOMAIN order_items' = DOMAIN order_items
          /\ \A other \in DOMAIN order_items \ {id} :
               order_items'[other] = order_items[other]
          /\ response'.body = {order_items'[id]}
          /\ \E item \in PartialItems :
               order_items'[id] = patched(order_items[id], item)
          /\ \A item \in PartialItems :
               order_items'[id] = patched(order_items[id], item) =>
                 /\ \A f \in item.model_fields_set :
                      order_items'[id][f] = item[f]
                 /\ \A f \in DOMAIN order_items[id] \ item.model_fields_set :
                      order_items'[id][f] = order_items[id][f] ]_vars

\* a PartialUpdate has succeeded on an item that has the larger quantity
\* and still the unit_price of its product
C4_Witness ==
    /\ Succeeded("partial_update", HTTP_200_OK)
    /\ \E existing_item \in response.body :
         /\ existing_item.quantity = 2
         /\ existing_item.product_id \in DOMAIN products
         /\ products[existing_item.product_id].price = existing_item.unit_price

\* C5: when a Delete has succeeded, the item is gone from the store, and
\* the next request, if it is a Get or a Delete of the same id, answers 404.
C5_DeleteThenNotFound ==
    [][ /\ (response'.op = "delete"
            /\ response'.status_code = HTTP_204_NO_CONTENT)
           => response'.item_id \notin DOMAIN order_items'
        /\ (/\ response.op = "delete"
            /\ response.status_code = HTTP_204_NO_CONTENT
            /\ response'.op \in {"get", "delete"}
            /\ response'.item_id = response.item_id)
           => response'.status_code = HTTP_404_NOT_FOUND ]_vars

\* a Delete answered 404 for an id the storage had handed out: the item
\* was deleted before
C5_Witness ==
    /\ Succeeded("delete", HTTP_404_NOT_FOUND)
    /\ response.item_id < next_item_id
    /\ response.item_id \notin DOMAIN order_items

\* C6: when the commit of a Create raises, the handler rolls back, answers
\* 400, and the stored OrderItems (what List and Get read) are as before.
C6_CreateCommitFailure ==
    [][ (response'.op = "create" /\ Called(session_log', "commit", TRUE)) =>
          /\ session_log'[Len(session_log')] = Call("rollback", 0, FALSE)
          /\ response'.status_code = HTTP_400_BAD_REQUEST
          /\ order_items' = order_items
          /\ next_item_id' = next_item_id ]_vars

\* the commit of a Create raised while an OrderItem is stored
C6_Witness ==
    /\ Succeeded("create", HTTP_400_BAD_REQUEST)
    /\ Called(session_log, "commit", TRUE)
    /\ Called(session_log, "rollback", FALSE)
    /\ DOMAIN order_items # {}

\* C7: a Create that answers 201 has added exactly one row, and a Create
\* that answers an error (404 or 400) has left the stored OrderItems as
\* they were.
C7_CreateAllOrNothing ==
    [][ response'.op = "create" =>
          IF response'.status_code = HTTP_201_CREATED
          THEN /\ Cardinality(DOMAIN order_items') =
                      Cardinality(DOMAIN order_items) + 1
               /\ \A id \in DOMAIN order_items :
                      id \in DOMAIN order_items'
                      /\ order_items'[id] = order_items[id]
          ELSE order_items' = order_items ]_vars

\* C8: when the commit of an Update, a PartialUpdate or a Delete raises, the
\* handler rolls back after it, answers 400 (which is not the 404 of a
\* missing record), and every stored OrderItem is as before.
C8_WriteFailureRollsBack ==
    [][ (/\ response'.op \in {"update", "partial_update", "delete"}
         /\ Called(session_log', "commit", TRUE)) =>
          /\ response'.item_id \in DOMAIN order_items
          /\ session_log'[Len(session_log')] = Call("rollback", 0, FALSE)
          /\ session_log'[Len(session_log') - 1] = Call("commit", 0, TRUE)
          /\ response'.status_code = HTTP_400_BAD_REQUEST
          /\ response'.status_code # HTTP_404_NOT_FOUND
          /\ order_items' = order_items ]_vars

\* the commit of an Update raised for a stored OrderItem
C8_Witness ==
    /\ Succeeded("update", HTTP_400_BAD_REQUEST)
    /\ Called(session_log, "commit", TRUE)
    /\ response.item_id \in DOMAIN order_items

\* C9: a Get, an Update, a PartialUpdate or a Delete of an id under which
\* nothing is stored answers 404 and leaves the stored OrderItems as before.
C9_MissingItem ==
    [][ (/\ response'.op \in {"get", "update", "partial_update", "delete"}
         /\ response'.item_id \notin DOMAIN order_items) =>
          /\ response'.status_code = HTTP_404_NOT_FOUND
          /\ order_items' = order_items ]_vars

\* an Update of a missing id was refused while another OrderItem is stored
C9_Witness ==
    /\ Succeeded("update", HTTP_404_NOT_FOUND)
    /\ response.item_id \notin DOMAIN order_items
    /\ DOMAIN order_items # {}

\* the message names the record by its kind and by the id looked up
NamesResourceAndId(detail, log) ==
    /\ \E i \in DOMAIN detail :
         detail[i] = (IF log[1].call = "get Product"
                      THEN "Product with id=" ELSE "Order item with id=")
    /\ \E i \in DOMAIN detail : detail[i] = ToString(LookedUp(log))

\* C10: every 404 answer carries a message that names the missing resource
\* and the id that was looked up.
C10_NotFoundMessage ==
    response.status_code = HTTP_404_NOT_FOUND =>
        NamesResourceAndId(response.detail, session_log)

\* C11: a successful Update of a stored item stores, for every payload the
\* request can have carried, the payload's order_id, product_id and quantity
\* together, leaves the id and the unit_price of the item as they were,
\* leaves every other item as it was, and answers the stored item.
C11_FullReplace ==
    [][ (response'.op = "update" /\ response'.status_code = HTTP_200_OK) =>
          LET id == response'.item_id IN
          /\ id \in DOMAIN order_items
          /\ DOMAIN order_items' = DOMAIN order_items
          /\ \A other \in DOMAIN order_items \ {id} :
               order_items'[other] = order_items[other]
          /\ DOMAIN order_items'[id] = DOMAIN order_items[id]
          /\ \A f \in DOMAIN order_items[id] \ SchemaFields :
               order_items'[id][f] = order_items[id][f]
          /\ response'.body = {order_items'[id]}
          /\ \E item \in ReplaceItems : update_order_item(id, item)
          /\ \A item \in ReplaceItems :
               update_order_item(id, item) =>
                 \A f \in SchemaFields : order_items'[id][f] = item[f] ]_vars

\* an Update has succeeded on an item created for the cheaper product: the
\* item now has the other order, the dearer product and the larger quantity
C11_Witness ==
    /\ Succeeded("update", HTTP_200_OK)
    /\ \E existing_item \in response.body :
         /\ existing_item.order_id = 2
         /\ existing_item.product_id = 2
         /\ existing_item.quantity = 2
         /\ existing_item.unit_price = 10

\* C12: the set of stored OrderItems changes only by a Create that answers
\* 201, which adds the item it returns, and by a Delete that answers 204,
\* which removes its item; and List returns exactly the stored items, each
\* with the values it is stored with.
C12_ListExactness ==
    [][ /\ DOMAIN order_items' =
             IF /\ response'.op = "create"
                /\ response'.status_code = HTTP_201_CREATED
             THEN DOMAIN order_items \cup {response'.item_id}
             ELSE IF /\ response'.op = "delete"
                     /\ response'.status_code = HTTP_204_NO_CONTENT
             THEN DOMAIN order_items \ {response'.item_id}
             ELSE DOMAIN order_items
        /\ response'.op = "list" =>
             /\ response'.status_code = HTTP_200_OK
             /\ response'.body = { order_items'[id] : id \in DOMAIN order_items' }
      ]_vars

\* the error text a 400 answer carries (the last part of its detail)
ErrorOf(detail) == detail[Len(detail)]

C15_CommitOrRollback ==
    ~(/\ Called(session_log, "commit", FALSE)
      /\ Called(session_log, "rollback", FALSE))

\* C16: when an Update commits and succeeds right after another Update of
\* the same id has succeeded, having fetched the item before that other
\* Update committed, the stored item has the order_id, the product_id and
\* the quantity of the payload of the Update that commits last.
C16_LastWriteWins ==
    [][ \A s \in Sessions :
          (/\ in_flight[s].op = "update"
           /\ in_flight'[s] = Idle
           /\ response'.op = "update"
           /\ response'.status_code = HTTP_200_OK
           /\ response.op = "update"
           /\ response.status_code = HTTP_200_OK
           /\ response.item_id = in_flight[s].item_id
           /\ response.body = select_first(order_items, in_flight[s].item_id)
           /\ response.body # in_flight[s].loaded)
          => \A f \in SchemaFields :
               order_items'[in_flight[s].item_id][f] =
                   The(in_flight[s].pending)[f] ]_vars

TypeOK ==
    /\ products = Catalogue
    /\ DOMAIN order_items \subseteq 1..(MaxItems + 1)
    /\ next_item_id \in 1..(MaxItems + 2)
    /\ response.status_code \in {0, 200, 201, 204, 400, 404}
    /\ \A s \in Sessions :
         in_flight[s].op \in {"idle", "create", "update", "partial_update",
                              "delete"}

====
